---- MODULE Spec2Model ----
(***************************************************************************)
(* A model of the text channel of television                              *)
(* (crates/television/channels/text.rs): the Channel that glues a         *)
(* background discovery task to the nucleo matching engine behind find,   *)
(* results, get_result, the cached counts, running and shutdown.          *)
(*                                                                         *)
(* The engine (crate nucleo) is not part of the repository's sources; it  *)
(* is modelled by its contract: an injector queue, a pattern with a       *)
(* reparse status, one background worker that re-scores under a lock,     *)
(* and a snapshot that only a tick replaces.                              *)
(***************************************************************************)
EXTENDS Integers, Sequences, FiniteSets, TLC

\* ------------------------------------------------------------------ bounds

\* The most candidates the discovery task injects in one run of the model.
MaxItems == 2
\* The most lines the discovery task reads from one file.
MaxLines == 2
\* The largest small value of results' num_entries / offset and get_result's index.
MaxArg == 1

\* The workers of the parallel walk (DEFAULT_NUM_THREADS in the code).
NumWalkers == 2
\* The most files in the walk or in a seed list.
MaxFiles == 3
\* The most entries in a seeded-entry list.
MaxEntries == 4
\* MAX_LINES_IN_MEM at the model's scale: the budget of lines the loaders
\* compare their counter with.
MaxLinesInMem == 1

\* num_entries, offset and index are u32; the model's u32 has this many bits.
U32Bits == 4

\* u32::MAX + 1 at that width.
U32Mod == 2 ^ U32Bits

\* ------------------------------------------------------------------ data

\* The patterns the user types while candidates stream in: a, then b, and
\* back by deleting.
Patterns == {<<>>, <<"a">>, <<"a", "b">>}

\* The patterns of an editing session: typing, deleting, replacing.
TypedPatterns == Patterns \cup {<<"b">>, <<"a", "a">>, <<"b", "a">>}

\* CandidateLine { path, line, line_number }: the lines the discovery task may push.
CandidateLine(path, line, line_number) ==
    [path |-> path, line |-> line, line_number |-> line_number]

\* The files the discovery task finds, and the text of line k of each.
Files == {"p", "q"}

LineText(path, k) ==
    IF path = "p"
    THEN (IF k % 2 = 1 THEN <<"a", "b">> ELSE <<"b">>)
    ELSE (IF k % 2 = 1 THEN <<"b", "a">> ELSE <<"a">>)

\* The values of results' offset and get_result's index, small ones and
\* u32::MAX, and the values of results' num_entries.
ArgValues == (0 .. MaxArg) \cup {U32Mod - 1}
CountValues == {0, 1, U32Mod - 1}

Min(x, y) == IF x <= y THEN x ELSE y

\* ------------------------------------------------- the matching engine

\* str::starts_with: prefix is an initial segment of s (s itself included).
StartsWith(s, prefix) ==
    /\ Len(prefix) <= Len(s)
    /\ SubSeq(s, 1, Len(prefix)) = prefix

\* The leftmost positions (1-based) at which the characters of pat occur in
\* line in order, from position from on; <<>> when pat is not a subsequence.
RECURSIVE MatchPositions(_, _, _)
MatchPositions(pat, line, from) ==
    IF pat = <<>> THEN <<>>
    ELSE LET hits == {i \in from .. Len(line) : line[i] = pat[1]}
         IN  IF hits = {} THEN <<>>
             ELSE LET i == CHOOSE x \in hits : \A y \in hits : x <= y
                      rest == MatchPositions(Tail(pat), line, i + 1)
                  IN  IF Len(pat) > 1 /\ rest = <<>> THEN <<>>
                      ELSE <<i>> \o rest

\* Fuzzy matching: the pattern's characters occur in the line in order; the
\* empty pattern matches every line.
Matches(pat, line) == pat = <<>> \/ MatchPositions(pat, line, 1) # <<>>

\* The engine's score, higher is better: a match at the start of the line
\* outranks a match further in.
Score(pat, line) == IF StartsWith(line, pat) THEN 2 ELSE 1

\* The order of the matched items: by score, ties by the shorter line, then
\* by insertion order (the index in the injector).
Before(pat, its, i, j) ==
    LET si == Score(pat, its[i].line)
        sj == Score(pat, its[j].line)
        li == Len(its[i].line)
        lj == Len(its[j].line)
    IN  \/ si > sj
        \/ si = sj /\ li < lj
        \/ si = sj /\ li = lj /\ i < j

RECURSIVE SortBy(_, _, _)
SortBy(pat, its, S) ==
    IF S = {} THEN <<>>
    ELSE LET b == CHOOSE x \in S : \A y \in S \ {x} : Before(pat, its, x, y)
         IN  <<b>> \o SortBy(pat, its, S \ {b})

\* What a completed run of the worker leaves in its match list: the indices
\* of the first k items that match pat, best first.
SortedMatches(pat, its, k) ==
    SortBy(pat, its, {i \in 1 .. k : Matches(pat, its[i].line)})

\* MultiPattern::reparse of column 0: the new text, and the status the next
\* tick hands to the worker (Update re-scores the previous matches only).
Reparse(mp, text, append) ==
    [text |-> text,
     status |-> IF append /\ mp.status # "Rescore" THEN "Update" ELSE "Rescore"]

\* The worker before its first run.
IdleWorker ==
    [busy |-> FALSE, running |-> FALSE, was_canceled |-> FALSE,
     pattern |-> <<>>, item_count |-> 0, matches |-> <<>>]

EmptySnapshot == [item_count |-> 0, pattern |-> <<>>, matches |-> <<>>]

\* Worker::run to its end: every item injected so far is scored.
RunToEnd(w, its) ==
    [w EXCEPT !.busy = FALSE, !.was_canceled = FALSE,
              !.item_count = Len(its),
              !.matches = SortedMatches(w.pattern, its, Len(its))]

\* Worker::run cut short by the canceled flag: its match list is not usable.
RunCanceled(w) == [w EXCEPT !.busy = FALSE, !.was_canceled = TRUE]

\* Snapshot::update: the snapshot takes over the worker's results.
SnapshotUpdate(w) ==
    [item_count |-> w.item_count, pattern |-> w.pattern, matches |-> w.matches]

\* Nucleo::tick_inner once it holds the worker's lock; w0 is the worker as
\* the lock finds it.
TickLocked(e, its, canceled, w0) ==
    LET changed == w0.running
        running == canceled \/ Len(its) > w0.item_count
        snap == IF w0.running /\ ~w0.was_canceled
                THEN SnapshotUpdate(w0) ELSE e.snapshot
        w1 == IF running
              THEN [w0 EXCEPT !.running = TRUE, !.pattern = e.mp.text,
                              !.busy = TRUE, !.was_canceled = FALSE]
              ELSE [w0 EXCEPT !.running = FALSE]
    IN  [mp |-> IF canceled THEN [e.mp EXCEPT !.status = "Unchanged"] ELSE e.mp,
         worker |-> w1, snapshot |-> snap,
         changed |-> changed, running |-> running]

\* Nucleo::tick_inner on the engine state e = [mp, worker, snapshot] with
\* the items its in the injector. A canceling tick waits for the lock; cut:
\* the run it waits for ends canceled rather than complete. Any other tick
\* gives up when the worker still holds the lock at the timeout.
TickInner(e, its, canceled, cut) ==
    IF ~canceled /\ e.worker.busy
    THEN [e EXCEPT !.changed = FALSE, !.running = TRUE]
    ELSE TickLocked(e, its, canceled,
                    IF e.worker.busy
                    THEN (IF cut THEN RunCanceled(e.worker)
                                 ELSE RunToEnd(e.worker, its))
                    ELSE e.worker)

\* The second tick_inner of a tick that canceled: fast, the fresh run ends
\* within the timeout.
TickAgain(r1, its, fast) ==
    LET r2 == TickInner(IF fast
                        THEN [r1 EXCEPT !.worker = RunToEnd(r1.worker, its)]
                        ELSE r1,
                        its, FALSE, FALSE)
    IN  [r2 EXCEPT !.changed = r1.changed \/ r2.changed]

\* Nucleo::tick: one tick_inner, and after a pattern change a second one that
\* waits for the fresh run up to the timeout.
Tick(e, its, cut, fast) ==
    IF e.mp.status = "Unchanged"
    THEN TickInner(e, its, FALSE, cut)
    ELSE TickAgain(TickInner(e, its, TRUE, cut), its, fast)

\* Snapshot::matched_item_count and Snapshot::item_count.
MatchedItemCount(snap) == Len(snap.matches)
ItemCount(snap) == snap.item_count

\* ------------------------------------------------------------ the channel

VARIABLES
    items,          \* the injector's queue: the candidates pushed so far
    crawl_handle,   \* the discovery task: "spawned", "running", "finished", "cancelled"
    mpattern,       \* matcher.pattern, column 0: [text, status]
    worker,         \* the engine's background worker
    snapshot,       \* matcher.snapshot(): the last results a tick took over
    last_pattern,   \* Channel.last_pattern
    result_count,   \* Channel.result_count
    total_count,    \* Channel.total_count
    running,        \* Channel.running
    panicked,       \* a call on the channel panicked (the UI thread unwinds)
    last_call,      \* the last step taken: the call and its arguments, or a background step
    returned,       \* the entries the last results or get_result call returned
    find_log,       \* the last find call of an editing session, as it was made
    session,        \* a pagination run results(n, 0), results(n, n), ...
    loader,         \* what the spawned task runs: "lines", "crawl", "paths", "entries"
    walk,           \* the files or entries the task has not taken yet
    walkers,        \* the task's workers, each in or between two callbacks
    lines_in_mem,   \* the task's counter of injected lines
    piping,         \* a channel being built from another channel's results
    chosen          \* a call of determine_channel: its arguments and its result

vars == <<items, crawl_handle, mpattern, worker, snapshot, last_pattern,
          result_count, total_count, running, panicked, last_call, returned,
          find_log, session, loader, walk, walkers, lines_in_mem, piping,
          chosen>>

\* What the calls on the channel leave alone: the task's own state and
\* what happens before the channel exists.
discovery == <<loader, walk, walkers, lines_in_mem>>
startup == <<piping, chosen>>

\* A step's record: results(a, b), get_result(a), shutdown (a = 1: right
\* after another shutdown), find, or a step of the task or the worker.
Call(op, a, b) == [op |-> op, a |-> a, b |-> b]

NoSession == [state |-> "idle", n |-> 0, next |-> 0, got |-> <<>>]

NoFind == [called |-> FALSE, pattern |-> <<>>, before |-> <<>>, reparses |-> <<>>]

\* Channel::new / from_file_paths / from_text_entries: the task is spawned,
\* the pattern is empty, the counts are 0 and running is false.
InitialRunning == FALSE

NoPiping == [source |-> "none"]
NoChoice == [called |-> FALSE]

\* The channel as its constructors leave it (lines 61-68, 94-101, 132-139).
ChannelNew ==
    /\ items = <<>>
    /\ crawl_handle = "spawned"
    /\ mpattern = [text |-> <<>>, status |-> "Unchanged"]
    /\ worker = IdleWorker
    /\ snapshot = EmptySnapshot
    /\ last_pattern = <<>>
    /\ result_count = 0
    /\ total_count = 0
    /\ running = InitialRunning
    /\ panicked = FALSE
    /\ last_call = Call("new", 0, 0)
    /\ returned = <<>>
    /\ find_log = NoFind
    /\ session = NoSession

\* A channel whose task streams the lines of the files p and q.
Init ==
    /\ ChannelNew
    /\ loader = "lines"
    /\ walk = <<>>
    /\ walkers = <<>>
    /\ lines_in_mem = 0
    /\ piping = NoPiping
    /\ chosen = NoChoice

\* --------------------------------------------- the discovery task, the worker

\* The runtime polls the spawned task for the first time.
TaskStart ==
    /\ ~panicked
    /\ crawl_handle = "spawned"
    /\ crawl_handle' = "running"
    /\ last_call' = Call("background", 0, 0)
    /\ returned' = <<>>
    /\ UNCHANGED <<items, mpattern, worker, snapshot, last_pattern,
                   result_count, total_count, running, panicked,
                   find_log, session,
                   discovery, startup>>

\* The lines of path pushed so far; the task reads a file front to back.
LinesPushed(its, path) == Cardinality({i \in 1 .. Len(its) : its[i].path = path})

\* injector.push(candidate, ...): the running task pushes the next line of
\* one of the files its workers are reading.
Inject(path) ==
    LET k == LinesPushed(items, path) + 1
    IN  /\ ~panicked
        /\ crawl_handle = "running"
        /\ Len(items) < MaxItems
        /\ k <= MaxLines
        /\ items' = Append(items, CandidateLine(path, LineText(path, k), k))
        /\ last_call' = Call("background", 0, 0)
        /\ returned' = <<>>
        /\ UNCHANGED <<crawl_handle, mpattern, worker, snapshot, last_pattern,
                       result_count, total_count, running, panicked,
                       find_log, session,
                   discovery, startup>>

\* The walk or the seed list is exhausted: the task's future completes.
TaskFinish ==
    /\ ~panicked
    /\ crawl_handle = "running"
    /\ crawl_handle' = "finished"
    /\ last_call' = Call("background", 0, 0)
    /\ returned' = <<>>
    /\ UNCHANGED <<items, mpattern, worker, snapshot, last_pattern,
                   result_count, total_count, running, panicked,
                   find_log, session,
                   discovery, startup>>

\* The engine's worker ends the run a tick spawned and releases its lock.
WorkerFinish ==
    /\ ~panicked
    /\ worker.busy
    /\ worker' = RunToEnd(worker, items)
    /\ last_call' = Call("background", 0, 0)
    /\ returned' = <<>>
    /\ UNCHANGED <<items, crawl_handle, mpattern, snapshot, last_pattern,
                   result_count, total_count, running, panicked,
                   find_log, session,
                   discovery, startup>>

\* ------------------------------------------------------- files and lines

\* MAX_FILE_SIZE (line 291) and the peek buffer [0u8; 128] (line 366).
MAX_FILE_SIZE == 4 * 1024 * 1024
PeekLen == 128

\* n bytes b.
Rep(b, n) == [i \in 1 .. n |-> b]

\* A line of n letters b, with its newline.
TextLine(b, n) == Rep(b, n) \o <<10>>

\* The files of the tree, by path, and the bytes of each. "t", "u" and "v"
\* are text files longer than the peek, with an empty line, a line that is
\* only a carriage return, and (v) a line that is not UTF-8; "s" is a text
\* file shorter than the peek; "bin" starts with NUL bytes; "huge" and
\* "dark" are text files over MAX_FILE_SIZE, of which the model holds the
\* first lines.
Tree == {"t", "u", "v", "s", "bin", "huge", "dark"}

\* Two text files the task cannot get at: File::open fails on the first
\* (line 414), the first read on the second (line 377).
FaultyFiles == {"locked", "ioerr"}
OpenOk(path) == path # "locked"
ReadOk(path) == path # "ioerr"

FileBytes(path) ==
    CASE path = "t"    -> TextLine(97, 70) \o <<10>> \o TextLine(98, 70)
      [] path = "u"    -> TextLine(99, 50) \o TextLine(100, 50) \o <<13, 10>>
                              \o TextLine(101, 50)
      [] path = "v"    -> TextLine(102, 130) \o <<255, 10>> \o TextLine(103, 3)
      [] path = "s"    -> TextLine(104, 5) \o TextLine(105, 5)
      [] path = "bin"  -> Rep(0, 8) \o TextLine(106, 130)
      [] path = "huge" -> TextLine(107, 130) \o TextLine(108, 3)
      [] path = "dark" -> TextLine(109, 130) \o TextLine(110, 3)
      [] path = "locked" -> TextLine(111, 130) \o TextLine(112, 3)
      [] path = "ioerr"  -> TextLine(113, 130) \o TextLine(114, 3)

\* Metadata::len of the file.
FileSize(path) ==
    IF path \in {"huge", "dark"} THEN MAX_FILE_SIZE + 1 ELSE Len(FileBytes(path))

\* entry.metadata() is Ok.
MetadataOk(path) == path # "dark"

\* reader.read(&mut buffer): the buffer after the peek, and bytes_read.
BytesRead(bytes) == Min(Len(bytes), PeekLen)
PeekBuffer(bytes) ==
    SubSeq(bytes, 1, BytesRead(bytes)) \o Rep(0, PeekLen - BytesRead(bytes))

\* utils::files::is_not_text: the bytes hold a NUL.
IsNotText(buffer) == \E i \in 1 .. Len(buffer) : buffer[i] = 0

\* utils::strings::proportion_of_printable_ascii_characters(buffer)
\* < PRINTABLE_ASCII_THRESHOLD, the threshold being 7 / 10.
PrintableCount(buffer) ==
    Cardinality({i \in 1 .. Len(buffer) : buffer[i] >= 32 /\ buffer[i] <= 126})
BelowThreshold(buffer) == PrintableCount(buffer) * 10 < 7 * Len(buffer)

\* Lines 367-375: the file is skipped after the peek. The two tests are
\* given the whole buffer, not the bytes read.
PeekRejects(bytes) ==
    \/ BytesRead(bytes) = 0
    \/ IsNotText(PeekBuffer(bytes))
    \/ BelowThreshold(PeekBuffer(bytes))

\* BufRead::lines: the file cut at its newlines, a carriage return before
\* the newline dropped; a last line needs no newline.
RECURSIVE SplitLines(_, _)
SplitLines(bytes, from) ==
    IF from > Len(bytes) THEN <<>>
    ELSE LET ends == {i \in from .. Len(bytes) : bytes[i] = 10}
             stop == IF ends = {} THEN Len(bytes) + 1
                     ELSE CHOOSE i \in ends : \A j \in ends : i <= j
             last == IF stop <= Len(bytes) /\ stop > from /\ bytes[stop - 1] = 13
                     THEN stop - 2 ELSE stop - 1
         IN  <<SubSeq(bytes, from, last)>> \o SplitLines(bytes, stop + 1)

\* The lines of each file of the tree, and the files the peek rejects.
LinesOf == [path \in Tree \cup FaultyFiles |-> SplitLines(FileBytes(path), 1)]
FileLines(path) == LinesOf[path]

\* The line decodes as UTF-8 (the model's only bad bytes are lone 255s).
DecodeOk(raw) == \A i \in 1 .. Len(raw) : raw[i] < 128

\* utils::strings::preprocess_line: the line without its control characters.
IsText(b) == b >= 32 /\ b # 127
PreprocessLine(raw) == SelectSeq(raw, IsText)

\* ----------------------------------------------------------------- piping

\* MAX_LINES_IN_MEM (line 305) and MAX_PIPED_FILES (line 157).
MAX_LINES_IN_MEM == 5000000
MAX_PIPED_FILES == MAX_LINES_IN_MEM \div 200

\* u32::try_from(MAX_PIPED_FILES).unwrap_or(u32::MAX): 25,000 fits a u32, so
\* the conversion succeeds and the fallback is never taken.
PipedFilesCap == MAX_PIPED_FILES

\* A Files channel as piping sees it: its cached result_count, and its
\* matched paths at the tick of the results call, as runs of n paths that
\* canonicalize (ok) or do not.
Run(ok, n) == [ok |-> ok, n |-> n]
RunsTotal(runs) ==
    IF runs = <<>> THEN 0
    ELSE LET sum[i \in 0 .. Len(runs)] == IF i = 0 THEN 0 ELSE sum[i - 1] + runs[i].n
         IN  sum[Len(runs)]

\* The first k paths of the runs: what results(k, 0) of the Files channel
\* returns, k clamped to the matched count.
RECURSIVE TakeRuns(_, _)
TakeRuns(runs, k) ==
    IF k <= 0 \/ runs = <<>> THEN <<>>
    ELSE <<Run(Head(runs).ok, Min(k, Head(runs).n))>>
             \o TakeRuns(Tail(runs), k - Head(runs).n)

\* flat_map(|entry| PathBuf::from(entry.name).canonicalize()): the paths
\* that canonicalize, the others dropped.
Canonicalized(runs) == SelectSeq(runs, LAMBDA r : r.ok)

\* The request without the cap.
PipeFilesRequestAll(cached_count) == cached_count

\* From<&mut TelevisionChannel>, the Files arm (lines 162-177).
PipeFilesRequest(cached_count) == Min(cached_count, PipedFilesCap)
PipeFilesSeeds(cached_count, runs) ==
    Canonicalized(TakeRuns(runs, PipeFilesRequest(cached_count)))

PipeFiles ==
    /\ piping.source = "files"
    /\ ~piping.done
    /\ piping' = [piping EXCEPT !.done = TRUE,
                                !.requested = PipeFilesRequest(piping.result_count),
                                !.seeds = PipeFilesSeeds(piping.result_count, piping.runs)]
    /\ UNCHANGED <<items, crawl_handle, mpattern, worker, snapshot, last_pattern,
                   result_count, total_count, running, panicked, last_call,
                   returned, find_log, session, discovery, chosen>>

\* ------------------------------------------------------ determine_channel

\* Option::None of the optional arguments.
None == "none"

\* ChannelPrototype: a name and a preview command.
Prototype(name, preview_command) == [name |-> name, preview_command |-> preview_command]

\* The channels of the cable and the preview command each one comes with.
CableChannels == {"files", "dirs", "text"}
CablePreview(name) ==
    CASE name = "files" -> "bat"
      [] name = "dirs"  -> "ls"
      [] name = "text"  -> None

\* cable.get_channel(name): the prototype of that name.
CableGetChannel(name) == Prototype(name, CablePreview(name))

\* ChannelPrototype::stdin(preview): the prototype named stdin.
StdinPrototype(preview_command) == Prototype("stdin", preview_command)

\* guess_channel_from_prompt: the channel whose trigger command starts the
\* prompt, or the fallback channel.
Prompts == {"cd", "vim"}
GuessChannelFromPrompt(prompt, commands, fallback_channel) ==
    IF prompt \in DOMAIN commands
    THEN CableGetChannel(commands[prompt])
    ELSE CableGetChannel(fallback_channel)

\* The prompt looked at before stdin.
DetermineChannelPromptFirst(args, config, readable_stdin) ==
    IF args.autocomplete_prompt # None
    THEN GuessChannelFromPrompt(args.autocomplete_prompt, config.commands,
                                config.fallback_channel)
    ELSE IF readable_stdin
    THEN StdinPrototype(args.preview_command)
    ELSE LET channel == IF args.channel # None THEN args.channel
                        ELSE config.default_channel
             prototype == CableGetChannel(channel)
         IN  IF args.preview_command # None
             THEN [prototype EXCEPT !.preview_command = args.preview_command]
             ELSE prototype

\* determine_channel (main.rs lines 151-185).
DetermineChannel(args, config, readable_stdin) ==
    IF readable_stdin
    THEN StdinPrototype(args.preview_command)
    ELSE IF args.autocomplete_prompt # None
    THEN GuessChannelFromPrompt(args.autocomplete_prompt, config.commands,
                                config.fallback_channel)
    ELSE LET channel == IF args.channel # None THEN args.channel
                        ELSE config.default_channel
             prototype == CableGetChannel(channel)
         IN  IF args.preview_command # None
             THEN [prototype EXCEPT !.preview_command = args.preview_command]
             ELSE prototype

\* One call of determine_channel at start-up.
DetermineChannelCall ==
    /\ ~chosen.called
    /\ chosen' = [chosen EXCEPT
                      !.called = TRUE,
                      !.prototype = DetermineChannel(chosen.args, chosen.config,
                                                     chosen.readable_stdin)]
    /\ UNCHANGED <<items, crawl_handle, mpattern, worker, snapshot, last_pattern,
                   result_count, total_count, running, panicked, last_call,
                   returned, find_log, session, discovery, piping>>

\* ---------------------------------------------------------- the loaders

Walkers == 1 .. NumWalkers

IdleWalker == [pc |-> "idle", path |-> "", line_number |-> 0, injected_lines |-> 0]

\* A background step changes the index only by pushing candidates.
LoaderFrame ==
    /\ last_call' = Call("background", 0, 0)
    /\ returned' = <<>>
    /\ UNCHANGED <<crawl_handle, mpattern, worker, snapshot, last_pattern,
                   result_count, total_count, running, panicked, find_log,
                   session, loader, startup>>

\* seq without its i-th element.
Without(seq, i) == SubSeq(seq, 1, i - 1) \o SubSeq(seq, i + 1, Len(seq))

\* Some worker's callback returned WalkState::Quit: no worker takes more work.
QuitNow == \E w \in Walkers : walkers[w].pc = "quit"

Skipped ==
    {path \in Tree \cup FaultyFiles :
        ~OpenOk(path) \/ ~ReadOk(path) \/ PeekRejects(FileBytes(path))}

\* A file that is skipped ends the walk or the load.
OpenAndPeekOrQuit(path) ==
    IF path \in Skipped THEN [IdleWalker EXCEPT !.pc = "quit"]
    ELSE [pc |-> "reading", path |-> path, line_number |-> 0, injected_lines |-> 0]

\* try_inject_lines up to its loop (lines 362-384): the worker after the
\* file is opened and peeked, reading it or done with it.
OpenAndPeek(path) ==
    IF path \in Skipped
    THEN IdleWalker
    ELSE [pc |-> "reading", path |-> path, line_number |-> 0, injected_lines |-> 0]

\* A loader that never stops for its counter.
NeverOverBudget(counter) == FALSE

\* lines_in_mem > MAX_LINES_IN_MEM (lines 83, 115 and 329-330).
OverBudget(counter) == counter > MaxLinesInMem

\* A callback that opens the file whatever the counter says.
VisitEntryUnchecked(path, counter) ==
    IF MetadataOk(path) /\ FileSize(path) > MAX_FILE_SIZE
    THEN IdleWalker
    ELSE OpenAndPeek(path)

\* A callback that answers WalkState::Continue when over the budget.
VisitEntrySkips(path, counter) ==
    IF OverBudget(counter) \/ (MetadataOk(path) /\ FileSize(path) > MAX_FILE_SIZE)
    THEN IdleWalker
    ELSE OpenAndPeek(path)

\* The callback of the parallel walk (lines 328-353) on one entry of the
\* frontier, up to the loop of try_inject_lines. Idle workers are alike:
\* the first of them is the one that takes the entry.
VisitEntry(path, counter) ==
    IF OverBudget(counter)
    THEN [IdleWalker EXCEPT !.pc = "quit"]
    ELSE IF MetadataOk(path) /\ FileSize(path) > MAX_FILE_SIZE
         THEN IdleWalker
         ELSE OpenAndPeek(path)

CrawlCallback(w, i) ==
    /\ ~panicked
    /\ loader = "crawl"
    /\ crawl_handle = "running"
    /\ walkers[w].pc = "idle"
    /\ \A v \in Walkers : v < w => walkers[v].pc # "idle"
    /\ ~QuitNow
    /\ i \in 1 .. Len(walk)
    /\ walk' = Without(walk, i)
    /\ walkers' = [walkers EXCEPT ![w] = VisitEntry(walk[i], lines_in_mem)]
    /\ UNCHANGED <<items, lines_in_mem>>
    /\ LoaderFrame

\* A turn of the loop that also counts the empty lines it skips.
ReadLineCountsEmpty(w) ==
    LET me == walkers[w]
        lines == FileLines(me.path)
        k == me.line_number + 1
        line == PreprocessLine(lines[k])
    IN  /\ ~panicked
        /\ crawl_handle = "running"
        /\ me.pc = "reading"
        /\ k <= Len(lines)
        /\ IF ~DecodeOk(lines[k])
           THEN /\ walkers' = [walkers EXCEPT ![w].pc = "broken"]
                /\ items' = items
           ELSE IF line = <<>>
           THEN /\ walkers' = [walkers EXCEPT ![w].line_number = k,
                                              ![w].injected_lines = @ + 1]
                /\ items' = items
           ELSE /\ walkers' = [walkers EXCEPT ![w].line_number = k,
                                              ![w].injected_lines = @ + 1]
                /\ items' = Append(items, CandidateLine(me.path, line, k))
        /\ UNCHANGED <<walk, lines_in_mem>>
        /\ LoaderFrame

\* One turn of the loop over reader.lines() (lines 385-411): a line that
\* does not decode ends the loop, an empty line is counted and skipped,
\* any other line is pushed with its number.
ReadLine(w) ==
    LET me == walkers[w]
        lines == FileLines(me.path)
        k == me.line_number + 1
        line == PreprocessLine(lines[k])
    IN  /\ ~panicked
        /\ crawl_handle = "running"
        /\ me.pc = "reading"
        /\ k <= Len(lines)
        /\ IF ~DecodeOk(lines[k])
           THEN /\ walkers' = [walkers EXCEPT ![w].pc = "broken"]
                /\ items' = items
           ELSE IF line = <<>>
           THEN /\ walkers' = [walkers EXCEPT ![w].line_number = k]
                /\ items' = items
           ELSE /\ walkers' = [walkers EXCEPT ![w].line_number = k,
                                              ![w].injected_lines = @ + 1]
                /\ items' = Append(items, CandidateLine(me.path, line, k))
        /\ UNCHANGED <<walk, lines_in_mem>>
        /\ LoaderFrame

\* The loop of try_inject_lines is over.
FileDone(me) ==
    \/ me.pc = "broken"
    \/ me.pc = "reading" /\ me.line_number >= Len(FileLines(me.path))

\* try_inject_lines returns Some(injected_lines), which the caller adds to
\* its counter (lines 345-348 and 89).
FetchAdd(w) ==
    /\ ~panicked
    /\ crawl_handle = "running"
    /\ FileDone(walkers[w])
    /\ lines_in_mem' = lines_in_mem + walkers[w].injected_lines
    /\ walkers' = [walkers EXCEPT ![w] = IdleWalker]
    /\ UNCHANGED <<items, walk>>
    /\ LoaderFrame

\* No worker is in a callback and none will take another entry.
WalkersStopped ==
    /\ \A w \in DOMAIN walkers : walkers[w].pc \in {"idle", "quit"}
    /\ walk = <<>> \/ \E w \in DOMAIN walkers : walkers[w].pc = "quit"

\* The walk returns and the task's future completes (line 354).
CrawlFinish ==
    /\ ~panicked
    /\ loader = "crawl"
    /\ crawl_handle = "running"
    /\ WalkersStopped
    /\ crawl_handle' = "finished"
    /\ last_call' = Call("background", 0, 0)
    /\ returned' = <<>>
    /\ UNCHANGED <<items, mpattern, worker, snapshot, last_pattern,
                   result_count, total_count, running, panicked, find_log,
                   session, discovery, startup>>

\* The body of the loop of from_file_paths (lines 82-91) up to the loop of
\* try_inject_lines: break when over the budget, else the next seed path,
\* with no look at its size.
PathsNext ==
    /\ ~panicked
    /\ loader = "paths"
    /\ crawl_handle = "running"
    /\ walkers[1].pc = "idle"
    /\ walk # <<>>
    /\ IF OverBudget(lines_in_mem)
       THEN /\ walkers' = [walkers EXCEPT ![1].pc = "quit"]
            /\ walk' = walk
       ELSE /\ walkers' = [walkers EXCEPT ![1] = OpenAndPeek(Head(walk))]
            /\ walk' = Tail(walk)
    /\ UNCHANGED <<items, lines_in_mem>>
    /\ LoaderFrame

\* The body of the loop of from_text_entries (lines 114-129): break when
\* over the budget, else push the entry and count it.
EntriesNext ==
    /\ ~panicked
    /\ loader = "entries"
    /\ crawl_handle = "running"
    /\ walkers[1].pc = "idle"
    /\ walk # <<>>
    /\ IF OverBudget(lines_in_mem)
       THEN /\ walkers' = [walkers EXCEPT ![1].pc = "quit"]
            /\ UNCHANGED <<walk, items, lines_in_mem>>
       ELSE /\ items' = Append(items,
                               CandidateLine(Head(walk).display_name[1],
                                             Head(walk).value[1],
                                             Head(walk).line_number[1]))
            /\ lines_in_mem' = lines_in_mem + 1
            /\ walk' = Tail(walk)
            /\ walkers' = walkers
    /\ LoaderFrame

\* The loop is left and the task's future completes (lines 92 and 130).
LoadFinish ==
    /\ ~panicked
    /\ loader \in {"paths", "entries"}
    /\ crawl_handle = "running"
    /\ WalkersStopped
    /\ crawl_handle' = "finished"
    /\ last_call' = Call("background", 0, 0)
    /\ returned' = <<>>
    /\ UNCHANGED <<items, mpattern, worker, snapshot, last_pattern,
                   result_count, total_count, running, panicked, find_log,
                   session, discovery, startup>>

\* ------------------------------------------------------------------ find

\* find without its comparison with last_pattern: every call reparses.
FindReparsesAlways(pattern, last, mp) ==
    LET append == StartsWith(pattern, last)
    IN  [mp |-> Reparse(mp, pattern, append),
         last_pattern |-> pattern,
         reparses |-> <<[text |-> pattern, append |-> append]>>]

\* find with the prefix test turned around: last_pattern.starts_with(pattern).
FindHintsOnDeletion(pattern, last, mp) ==
    IF pattern # last
    THEN LET append == StartsWith(last, pattern)
         IN  [mp |-> Reparse(mp, pattern, append),
              last_pattern |-> pattern,
              reparses |-> <<[text |-> pattern, append |-> append]>>]
    ELSE [mp |-> mp, last_pattern |-> last, reparses |-> <<>>]

\* find that hands the index the pattern it already had.
FindReparsesLastPattern(pattern, last, mp) ==
    IF pattern # last
    THEN LET append == StartsWith(pattern, last)
         IN  [mp |-> Reparse(mp, last, append),
              last_pattern |-> pattern,
              reparses |-> <<[text |-> pattern, append |-> append]>>]
    ELSE [mp |-> mp, last_pattern |-> last, reparses |-> <<>>]

\* The body of Channel::find: a reparse with the prefix hint and the store
\* of the pattern when it differs from last_pattern, nothing otherwise.
FindEffect(pattern, last, mp) ==
    IF pattern # last
    THEN LET append == StartsWith(pattern, last)
         IN  [mp |-> Reparse(mp, pattern, append),
              last_pattern |-> pattern,
              reparses |-> <<[text |-> pattern, append |-> append]>>]
    ELSE [mp |-> mp, last_pattern |-> last, reparses |-> <<>>]

\* Channel::find(pattern), without the bookkeeping of an editing session.
FindCall(pattern) ==
    \E f \in {FindEffect(pattern, last_pattern, mpattern)} :
        /\ ~panicked
        /\ mpattern' = f.mp
        /\ last_pattern' = f.last_pattern
        /\ last_call' = Call("find", 0, 0)
        /\ returned' = <<>>
        /\ session' = IF f.reparses = <<>> THEN session ELSE NoSession
        /\ UNCHANGED <<items, crawl_handle, worker, snapshot, result_count,
                       total_count, running, panicked,
                   discovery, startup>>

Find(pattern) ==
    /\ FindCall(pattern)
    /\ UNCHANGED find_log

\* The state find can touch, and the rest of the channel and its index.
FindFrame == <<mpattern, last_pattern, result_count, total_count, running,
               worker, snapshot, items, crawl_handle>>

\* find(pattern) in an editing session: the call is written down with the
\* state it found and the reparses it made.
FindLogged(pattern) ==
    /\ FindCall(pattern)
    /\ find_log' = [called |-> TRUE, pattern |-> pattern,
                    before |-> FindFrame,
                    reparses |-> FindEffect(pattern, last_pattern, mpattern).reparses]

\* --------------------------------------------------------------- results

\* The refresh with the two counts exchanged.
RefreshCountsExchanged(changed, snap, rc, tc) ==
    IF changed
    THEN [result_count |-> ItemCount(snap),
          total_count |-> MatchedItemCount(snap)]
    ELSE [result_count |-> rc, total_count |-> tc]

\* Lines 215-218: the cached counts follow the snapshot when the tick
\* reports a change.
RefreshCounts(changed, snap, rc, tc) ==
    IF changed
    THEN [result_count |-> MatchedItemCount(snap), total_count |-> ItemCount(snap)]
    ELSE [result_count |-> rc, total_count |-> tc]

\* running refreshed only together with the counts.
TickedRunningIfChanged(status, old) ==
    IF status.changed THEN status.running ELSE old

\* Line 219: running follows the tick's status.
TickedRunning(status, old) == status.running

\* Lines 225-227: the end of the window, (num_entries + offset).min(matched),
\* the sum in u32.
WindowEnd(num_entries, offset, matched) ==
    Min((num_entries + offset) % U32Mod, matched)

\* The call unwinds: the u32 sum overflows in a build with overflow checks,
\* or the range handed to Snapshot::matched_items starts after its end.
WindowPanics(num_entries, offset, matched) ==
    offset > WindowEnd(num_entries, offset, matched)

\* Lines 230-237: the matched positions, sorted and deduplicated, each
\* widened to (i, i + 1); positions count from 0.
MatchRanges(pat, line) ==
    LET pos == MatchPositions(pat, line, 1)
    IN  [k \in 1 .. Len(pos) |-> <<pos[k] - 1, pos[k]>>]

\* Path::to_string_lossy (lines 241-242 and 258): a path that is not valid
\* Unicode comes out with U+FFFD in place of the offending bytes.
NonUnicodePath == "n_xFF"
ToStringLossy(path) == IF path = NonUnicodePath THEN "n_uFFFD" ELSE path

\* The text of matcher column 0 as a string (line 239): the column keeps the
\* first code point of each grapheme, so a combining mark that follows a
\* base character is not in it.
Combining == {"acute"}
RECURSIVE ColumnText(_)
ColumnText(line) ==
    IF Len(line) <= 1 THEN line
    ELSE LET front == ColumnText(SubSeq(line, 1, Len(line) - 1))
         IN  IF line[Len(line)] \in Combining THEN front
             ELSE Append(front, line[Len(line)])

\* Lines 239-250: the Entry of one matched item. An absent field is <<>>, a
\* present one <<v>>; a name is the sequence of the strings concatenated.
ResultEntry(pat, c) ==
    [name |-> <<ToStringLossy(c.path), ToString(c.line_number)>>,
     display_name |-> <<ToStringLossy(c.path)>>,
     value |-> <<ColumnText(c.line)>>,
     value_match_ranges |-> <<MatchRanges(pat, c.line)>>,
     line_number |-> <<c.line_number>>]

\* The matched items handed out last first.
MatchedEntriesReversed(snap, its, lo, hi) ==
    [k \in 1 .. (hi - lo) |->
        ResultEntry(snap.pattern, its[snap.matches[hi + 1 - k]])]

\* The entries of the matched items at positions lo .. hi - 1 of the snapshot.
MatchedEntries(snap, its, lo, hi) ==
    [k \in 1 .. (hi - lo) |-> ResultEntry(snap.pattern, its[snap.matches[lo + k]])]

\* Lines 223-252: what results returns from the snapshot snap when it does
\* not unwind.
ResultsReturn(snap, its, num_entries, offset) ==
    MatchedEntries(snap, its, offset,
                   WindowEnd(num_entries, offset, MatchedItemCount(snap)))

\* Channel::results(num_entries, offset), without the bookkeeping of a
\* pagination run.
ResultsCall(num_entries, offset, cut, fast) ==
    \E t \in {Tick([mp |-> mpattern, worker |-> worker, snapshot |-> snapshot,
                     changed |-> FALSE, running |-> FALSE], items, cut, fast)} :
    LET counts == RefreshCounts(t.changed, t.snapshot, result_count, total_count)
        matched == MatchedItemCount(t.snapshot)
        panics == WindowPanics(num_entries, offset, matched)
    IN  /\ ~panicked
        /\ mpattern' = t.mp
        /\ worker' = t.worker
        /\ snapshot' = t.snapshot
        /\ result_count' = counts.result_count
        /\ total_count' = counts.total_count
        /\ running' = TickedRunning(t, running)
        /\ panicked' = panics
        /\ last_call' = Call("results", num_entries, offset)
        /\ returned' = (IF panics THEN <<>>
                        ELSE ResultsReturn(t.snapshot, items, num_entries, offset))
        /\ UNCHANGED <<items, crawl_handle, last_pattern, find_log,
                       discovery, chosen>>

\* The ways the worker's timing can go during one tick: a run in progress
\* is cut short only by a canceling tick, and only such a tick waits for a
\* fresh run.
CutChoices == IF mpattern.status # "Unchanged" /\ worker.busy THEN BOOLEAN ELSE {FALSE}
FastChoices == IF mpattern.status # "Unchanged" THEN BOOLEAN ELSE {FALSE}

Results(num_entries, offset) ==
    /\ \E cut \in CutChoices, fast \in FastChoices :
           ResultsCall(num_entries, offset, cut, fast)
    /\ session' = NoSession
    /\ piping' = piping

\* One page of a pagination run: results(n, offset), the entries it returns
\* appended to those of the earlier pages; the run ends when the next offset
\* reaches result_count().
Page(n, offset, got) ==
    /\ \E cut \in CutChoices, fast \in FastChoices : ResultsCall(n, offset, cut, fast)
    /\ session' =
           IF panicked' THEN NoSession
           ELSE [state |-> IF offset + n >= result_count' THEN "done" ELSE "paging",
                 n |-> n, next |-> offset + n,
                 got |-> got \o returned']
    /\ piping' = piping

\* The caller starts paging once discovery is over and running() is false.
PageStart(n) ==
    /\ session.state = "idle"
    /\ crawl_handle \in {"finished", "cancelled"}
    /\ running = FALSE
    /\ n >= 1
    /\ Page(n, 0, <<>>)

PageNext ==
    /\ session.state = "paging"
    /\ Page(session.n, session.next, session.got)

\* ------------------------------------------------------------ get_result

\* Lines 258-266: the Entry get_result builds: no value, no match ranges.
GetResultEntry(c) ==
    [name |-> <<ToStringLossy(c.path)>>,
     display_name |-> <<ToStringLossy(c.path), ":", ToString(c.line_number)>>,
     value |-> <<>>,
     value_match_ranges |-> <<>>,
     line_number |-> <<c.line_number>>]

\* The lookup by index among all the items instead of the matched ones.
GetItem(snap, its, index) ==
    IF index < ItemCount(snap)
    THEN <<GetResultEntry(its[index + 1])>>
    ELSE <<>>

\* Lines 256-257: Snapshot::get_matched_item(index) of the current snapshot.
GetMatchedItem(snap, its, index) ==
    IF index < MatchedItemCount(snap)
    THEN <<GetResultEntry(its[snap.matches[index + 1]])>>
    ELSE <<>>

GetResult(index) ==
    /\ ~panicked
    /\ last_call' = Call("get_result", index, 0)
    /\ returned' = GetMatchedItem(snapshot, items, index)
    /\ UNCHANGED <<items, crawl_handle, mpattern, worker, snapshot,
                   last_pattern, result_count, total_count, running,
                   panicked, find_log, session,
                   discovery, startup>>

\* -------------------------------------------------------------- shutdown

\* JoinHandle::abort: a task not yet polled is dropped; the task's body has
\* no await, so once it runs it runs to its end; a finished task is left alone.
Abort(handle) == IF handle = "spawned" THEN "cancelled" ELSE handle

\* A shutdown that also marks the channel as not running.
ShutdownStopsRunning ==
    /\ ~panicked
    /\ crawl_handle' = Abort(crawl_handle)
    /\ running' = FALSE
    /\ last_call' = Call("shutdown", IF last_call.op = "shutdown" THEN 1 ELSE 0, 0)
    /\ returned' = <<>>
    /\ UNCHANGED <<items, mpattern, worker, snapshot, last_pattern,
                   result_count, total_count, panicked, find_log, session,
                   discovery, startup>>

Shutdown ==
    /\ ~panicked
    /\ crawl_handle' = Abort(crawl_handle)
    /\ last_call' = Call("shutdown", IF last_call.op = "shutdown" THEN 1 ELSE 0, 0)
    /\ returned' = <<>>
    /\ UNCHANGED <<items, mpattern, worker, snapshot, last_pattern,
                   result_count, total_count, running, panicked,
                   find_log, session,
                   discovery, startup>>

\* ------------------------------------------------------- specification

Next ==
    \/ TaskStart
    \/ \E path \in Files : Inject(path)
    \/ TaskFinish
    \/ WorkerFinish
    \/ \E pattern \in Patterns : Find(pattern)
    \/ \E num_entries \in CountValues, offset \in ArgValues :
           Results(num_entries, offset)
    \/ \E index \in ArgValues : GetResult(index)
    \/ Shutdown

Spec == Init /\ [][Next]_vars

\* An editing session: the user types, the UI polls, the worker re-scores.
NextFind ==
    \/ \E pattern \in TypedPatterns : FindLogged(pattern)
    \/ \E num_entries \in CountValues, offset \in ArgValues :
           Results(num_entries, offset)
    \/ WorkerFinish

SpecFind == Init /\ [][NextFind]_vars

\* The channel with a caller that pages through the results.
NextPaging ==
    \/ Next
    \/ \E n \in CountValues : PageStart(n)
    \/ PageNext

SpecPaging == Init /\ [][NextPaging]_vars

\* ------------------------------------------------------ the directory crawl

\* The lists of at most MaxFiles different files of the tree.
RECURSIVE SeedListsOf(_)
SeedListsOf(n) ==
    IF n = 0 THEN {<<>>}
    ELSE LET shorter == SeedListsOf(n - 1)
         IN  shorter \cup
             {Append(l, p) : l \in {x \in shorter : Len(x) = n - 1},
                             p \in Tree} 

SeedLists ==
    {l \in SeedListsOf(MaxFiles) : \A i, j \in 1 .. Len(l) : i # j => l[i] # l[j]}

\* The frontier of a walk: its workers take the entries in any order, so
\* one list stands for all its arrangements.
TreeOrder == <<"t", "u", "v", "s", "bin", "huge", "dark", "locked", "ioerr">>
Rank(path) == CHOOSE i \in 1 .. Len(TreeOrder) : TreeOrder[i] = path
Frontiers ==
    {l \in SeedLists : \A i, j \in 1 .. Len(l) : i < j => Rank(l[i]) < Rank(l[j])}

\* Channel::new(directories): the walk will meet the files of the tree in
\* any order.
InitCrawl ==
    /\ ChannelNew
    /\ loader = "crawl"
    /\ walk \in Frontiers
    /\ walkers = [w \in Walkers |-> IdleWalker]
    /\ lines_in_mem = 0
    /\ piping = NoPiping
    /\ chosen = NoChoice

NextCrawl ==
    \/ TaskStart
    \/ \E w \in Walkers, i \in 1 .. MaxFiles : CrawlCallback(w, i)
    \/ \E w \in Walkers : ReadLine(w)
    \/ \E w \in Walkers : FetchAdd(w)
    \/ CrawlFinish
    \/ Shutdown

SpecCrawl == InitCrawl /\ [][NextCrawl]_vars

\* ------------------------------------------------------- the seeded loads

\* The entries another text channel's results hand over: its first n lines.
SeedEntries(n) ==
    [k \in 1 .. n |-> ResultEntry(<<>>, CandidateLine("p", LineText("p", k), k))]

\* Channel::from_file_paths(file_paths) and Channel::from_text_entries(entries).
InitLoad ==
    /\ ChannelNew
    /\ \/ loader = "paths" /\ walk \in SeedLists
       \/ loader = "entries" /\ walk \in {SeedEntries(n) : n \in 0 .. MaxEntries}
    /\ walkers = [w \in Walkers |-> IdleWalker]
    /\ lines_in_mem = 0
    /\ piping = NoPiping
    /\ chosen = NoChoice

NextLoad ==
    \/ TaskStart
    \/ PathsNext
    \/ ReadLine(1)
    \/ FetchAdd(1)
    \/ EntriesNext
    \/ LoadFinish
    \/ Shutdown

SpecLoad == InitLoad /\ [][NextLoad]_vars

\* A crawl whose channel is rendered while it runs: results calls tick the
\* matcher and the engine's worker scores what has been injected.
TickedTree == {"t", "v", "bin"}
TickedFrontiers == {l \in Frontiers : \A i \in 1 .. Len(l) : l[i] \in TickedTree}

InitCrawlTicked ==
    /\ ChannelNew
    /\ loader = "crawl"
    /\ walk \in TickedFrontiers
    /\ walkers = [w \in Walkers |-> IdleWalker]
    /\ lines_in_mem = 0
    /\ piping = NoPiping
    /\ chosen = NoChoice

\* A step of the discovery task: the runtime polls the spawned task and the
\* walker's threads run.
CrawlStep ==
    \/ TaskStart
    \/ \E w \in Walkers, i \in 1 .. MaxFiles : CrawlCallback(w, i)
    \/ \E w \in Walkers : ReadLine(w)
    \/ \E w \in Walkers : FetchAdd(w)
    \/ CrawlFinish

NextCrawlTicked ==
    \/ CrawlStep
    \/ Results(0, 0)
    \/ WorkerFinish

\* The discovery task and the engine's pool keep running, and the render
\* loop calls results on every frame.
FairCrawlTicked ==
    /\ WF_vars(CrawlStep)
    /\ WF_vars(Results(0, 0))
    /\ WF_vars(WorkerFinish)

SpecCrawlTicked == InitCrawlTicked /\ [][NextCrawlTicked]_vars /\ FairCrawlTicked

\* Discovery over files of which some cannot be opened or read: every walk
\* and every seed list holds at least one of them.
FaultyTree == FaultyFiles \cup {"v", "t"}

RECURSIVE ListsOver(_, _)
ListsOver(files, n) ==
    IF n = 0 THEN {<<>>}
    ELSE LET shorter == ListsOver(files, n - 1)
         IN  shorter \cup
             {Append(l, p) : l \in {x \in shorter : Len(x) = n - 1}, p \in files}

FaultyLists ==
    {l \in ListsOver(FaultyTree, MaxFiles) :
        /\ \A i, j \in 1 .. Len(l) : i # j => l[i] # l[j]
        /\ \E i \in 1 .. Len(l) : l[i] \in FaultyFiles}
FaultyFrontiers ==
    {l \in FaultyLists : \A i, j \in 1 .. Len(l) : i < j => Rank(l[i]) < Rank(l[j])}

InitFaulty ==
    /\ ChannelNew
    /\ \/ loader = "crawl" /\ walk \in FaultyFrontiers
       \/ loader = "paths" /\ walk \in FaultyLists
    /\ walkers = [w \in Walkers |-> IdleWalker]
    /\ lines_in_mem = 0
    /\ piping = NoPiping
    /\ chosen = NoChoice

NextFaulty ==
    \/ TaskStart
    \/ \E w \in Walkers, i \in 1 .. MaxFiles : CrawlCallback(w, i)
    \/ PathsNext
    \/ \E w \in Walkers : ReadLine(w)
    \/ \E w \in Walkers : FetchAdd(w)
    \/ CrawlFinish
    \/ LoadFinish

\* The runtime polls the spawned task and the walker's threads run.
SpecFaulty == InitFaulty /\ [][NextFaulty]_vars /\ WF_vars(NextFaulty)

\* ------------------------------------------------------------ piping runs

\* From<&mut TelevisionChannel>, the Text arm (lines 189-192): the entries
\* of c.results(c.result_count(), 0), the count being the cached one, read
\* before the call ticks.
PipeText ==
    /\ \E cut \in CutChoices, fast \in FastChoices :
           ResultsCall(result_count, 0, cut, fast)
    /\ session' = NoSession
    /\ piping' = [source |-> "text", entries |-> returned']

\* A text channel that is also piped from.
NextPipeText == Next \/ PipeText

SpecPipeText == Init /\ [][NextPipeText]_vars

\* The result counts of a Files channel, around the cap and far from it.
FileCounts ==
    {0, 1, 2, 10000, MAX_PIPED_FILES - 1, MAX_PIPED_FILES, MAX_PIPED_FILES + 1, 60000}

\* The matched paths of a Files channel with n results: all canonicalize,
\* the first or the last does not, or none does.
RunsOf(n) ==
    IF n = 0 THEN {<<>>}
    ELSE {<<Run(TRUE, n)>>, <<Run(FALSE, n)>>}
         \cup (IF n = 1 THEN {}
               ELSE {<<Run(FALSE, 1), Run(TRUE, n - 1)>>,
                     <<Run(TRUE, n - 1), Run(FALSE, 1)>>})

InitPipeFiles ==
    /\ ChannelNew
    /\ loader = "paths"
    /\ walk = <<>>
    /\ walkers = [w \in Walkers |-> IdleWalker]
    /\ lines_in_mem = 0
    /\ \E cached \in FileCounts, matched \in FileCounts :
         \E runs \in RunsOf(matched) :
           piping = [source |-> "files", done |-> FALSE, result_count |-> cached,
                     runs |-> runs, requested |-> 0, seeds |-> <<>>]
    /\ chosen = NoChoice

NextPipeFiles == PipeFiles

SpecPipeFiles == InitPipeFiles /\ [][NextPipeFiles]_vars

\* A Text channel piped into a new Text channel: the source's candidates,
\* among them one under a path that is not valid Unicode and one whose line
\* has a combining mark.
SourceCandidates ==
    {CandidateLine("p", <<"a", "b">>, 1),
     CandidateLine("p", <<"a">>, 2),
     CandidateLine(NonUnicodePath, <<"b">>, 1),
     CandidateLine("q", <<"a", "acute">>, 3)}

RECURSIVE SourceListsOf(_)
SourceListsOf(n) ==
    IF n = 0 THEN {<<>>}
    ELSE LET shorter == SourceListsOf(n - 1)
         IN  shorter \cup {Append(l, c) : l \in shorter, c \in SourceCandidates}
SourceLists == SourceListsOf(MaxEntries)

\* The source's snapshot once its worker has scored all its candidates
\* against the empty pattern.
SourceSnapshot(its) == SnapshotUpdate(RunToEnd(IdleWorker, its))

\* The source's candidates in the order of its results.
InResultOrder(its) ==
    [k \in 1 .. Len(its) |-> its[SourceSnapshot(its).matches[k]]]

\* from(Text(c)) (lines 189-192): c.results(c.result_count(), 0) on a source
\* whose counts are fresh, handed to from_text_entries.
InitRepipe ==
    /\ ChannelNew
    /\ loader = "entries"
    /\ \E its \in SourceLists :
         \E entries \in {MatchedEntries(SourceSnapshot(its), its, 0, Len(its))} :
           /\ walk = entries
           /\ piping = [source |-> "text", candidates |-> InResultOrder(its),
                        entries |-> entries]
    /\ walkers = [w \in Walkers |-> IdleWalker]
    /\ lines_in_mem = 0
    /\ chosen = NoChoice

NextRepipe ==
    \/ TaskStart
    \/ EntriesNext
    \/ LoadFinish

SpecRepipe == InitRepipe /\ [][NextRepipe]_vars

\* ------------------------------------------------------- start-up runs

\* The command lines and configurations determine_channel is called with.
CliArgs ==
    [autocomplete_prompt : Prompts \cup {None},
     channel             : {"dirs", "text", None},
     preview_command     : {"echo", None}]
Configs ==
    [default_channel  : {"files", "dirs"},
     fallback_channel : {"files", "text"},
     commands         : {[p \in {"cd"} |-> "dirs"]}]

InitDetermine ==
    /\ ChannelNew
    /\ loader = "lines"
    /\ walk = <<>>
    /\ walkers = <<>>
    /\ lines_in_mem = 0
    /\ piping = NoPiping
    /\ \E args \in CliArgs, config \in Configs, readable_stdin \in BOOLEAN :
           chosen = [called |-> FALSE, args |-> args, config |-> config,
                     readable_stdin |-> readable_stdin, prototype |-> Prototype("", None)]

NextDetermine == DetermineChannelCall

SpecDetermine == InitDetermine /\ [][NextDetermine]_vars

\* ------------------------------------------------------------- properties

\* C1: results(count, offset) with offset at or beyond the matched count of
\* the snapshot (offset = m and offset > m) returns an empty sequence and
\* does not panic, for any count.
ResultsToleratesOffsetBeyondMatched ==
    (last_call.op = "results" /\ last_call.b >= MatchedItemCount(snapshot))
        => (~panicked /\ returned = <<>>)

\* The path and line number of the candidate each entry was built from.
CandidatesOf(entries) ==
    [k \in 1 .. Len(entries) |->
        <<entries[k].display_name, entries[k].line_number>>]

\* C2: with the pattern fixed, discovery finished and running() false, the
\* calls results(n, 0), results(n, n), ... up to result_count() return in
\* total exactly the matched sequence: result_count() entries, each matched
\* candidate once, in order.
PagingTilesMatched ==
    session.state = "done"
        => CandidatesOf(session.got) =
               CandidatesOf(MatchedEntries(snapshot, items, 0, result_count))

\* old is a proper prefix of new: new extends old by at least one character.
ProperPrefix(old, new) ==
    /\ Len(old) < Len(new)
    /\ \A i \in 1 .. Len(old) : new[i] = old[i]

\* C3: find(p) with p equal to last_pattern makes no reparse and leaves the
\* channel and its index as they were; find(p) with another p makes exactly
\* one reparse, of p, and ends with last_pattern = p.
FindIdempotent ==
    (find_log.called /\ last_call.op = "find")
        => IF find_log.pattern = find_log.before[2]
           THEN find_log.reparses = <<>> /\ FindFrame = find_log.before
           ELSE /\ Len(find_log.reparses) = 1
                /\ find_log.reparses[1].text = find_log.pattern
                /\ mpattern.text = find_log.pattern
                /\ last_pattern = find_log.pattern

\* A second find(p) right after p became the pattern.
FindIdempotentWitness ==
    /\ find_log.called
    /\ last_call.op = "find"
    /\ find_log.pattern # <<>>
    /\ find_log.pattern = find_log.before[2]
    /\ find_log.before[1].status # "Unchanged"

\* C4: every reparse is given the append hint that is true exactly when the
\* new pattern strictly extends the pattern of the reparse before it (the
\* empty pattern at first), and false otherwise.
AppendHintIsProperPrefix ==
    (find_log.called /\ find_log.reparses # <<>>)
        => (find_log.reparses[1].append
               <=> ProperPrefix(find_log.before[1].text, find_log.pattern))

\* A character typed after a pattern that is not empty, and the reparse told so.
AppendHintWitness ==
    /\ find_log.called
    /\ find_log.reparses # <<>>
    /\ find_log.reparses[1].append
    /\ find_log.before[1].text # <<>>

\* C5: a results call ticks once; the cached counts are overwritten from the
\* snapshot when that tick reports a change and keep their values otherwise;
\* running takes the tick's running status either way; last_pattern stays.
ResultsRefreshesFromTick ==
    [][last_call'.op = "results" =>
          \E cut \in CutChoices, fast \in FastChoices :
              \E t \in {Tick([mp |-> mpattern, worker |-> worker,
                              snapshot |-> snapshot, changed |-> FALSE,
                              running |-> FALSE], items, cut, fast)} :
                  /\ mpattern' = t.mp /\ worker' = t.worker /\ snapshot' = t.snapshot
                  /\ t.changed => /\ result_count' = MatchedItemCount(snapshot')
                                  /\ total_count' = ItemCount(snapshot')
                  /\ ~t.changed => /\ result_count' = result_count
                                   /\ total_count' = total_count
                  /\ running' = t.running
                  /\ last_pattern' = last_pattern]_vars

\* A results call whose tick took over no new snapshot (the counts still
\* lag behind the injector) and yet reported work in progress.
ResultsRefreshWitness ==
    /\ last_call.op = "results"
    /\ running
    /\ total_count > 0
    /\ total_count < Len(items)

\* C7: while the discovery task has not finished, or the index has
\* candidates it has not scored, running() is true; also right after the
\* channel is created.
RunningWhileWorkOutstanding ==
    (\/ crawl_handle \in {"spawned", "running"}
     \/ Len(items) > worker.item_count
     \/ worker.busy)
        => running

\* C6: get_result(i) does not tick and changes nothing of the channel or its
\* index; it returns nothing exactly when i is at or beyond the matched
\* count of the snapshot, and otherwise an entry with the path and line
\* number of the entry results(1, i) returns on that snapshot, without
\* match ranges.
GetResultReadsSnapshot ==
    [][last_call'.op = "get_result" =>
          /\ UNCHANGED <<result_count, total_count, running, last_pattern,
                         mpattern, worker, snapshot, items, panicked>>
          /\ IF last_call'.a >= MatchedItemCount(snapshot)
             THEN returned' = <<>>
             ELSE /\ Len(returned') = 1
                  /\ Len(ResultsReturn(snapshot, items, 1, last_call'.a)) = 1
                  /\ returned'[1].name =
                         ResultsReturn(snapshot, items, 1, last_call'.a)[1].display_name
                  /\ returned'[1].line_number =
                         ResultsReturn(snapshot, items, 1, last_call'.a)[1].line_number
                  /\ returned'[1].value_match_ranges = <<>>]_vars

\* get_result found the second match of a pattern that filters the items.
GetResultWitness ==
    /\ last_call.op = "get_result"
    /\ last_call.a = 1
    /\ Len(returned) = 1
    /\ snapshot.pattern # <<>>

\* C8: the value total_count() returns never decreases.
TotalCountNeverDecreases == [][total_count' >= total_count]_vars

\* total_count has grown, and the pattern matches fewer than all.
TotalCountWitness ==
    /\ last_call.op = "results"
    /\ total_count >= 2
    /\ result_count < total_count

\* A results call has returned since the last find that changed the pattern.
Polled == mpattern.status = "Unchanged"

\* C9: while last_pattern stays fixed, the values result_count() takes at
\* successive results calls never decrease.
ResultCountMonotoneWithinPattern ==
    [][(last_call'.op = "results" /\ Polled)
          => result_count' >= result_count]_vars

\* C9, amended: while last_pattern stays fixed, once a results call under it
\* has returned from a snapshot scored with that pattern, the values
\* result_count() takes at later results calls never decrease.
ResultCountMonotoneOnceScored ==
    [][(last_call'.op = "results" /\ Polled /\ snapshot.pattern = last_pattern)
          => result_count' >= result_count]_vars

\* Two matches of a typed pattern, reported from a snapshot scored with it.
ResultCountWitness ==
    /\ last_call.op = "results"
    /\ Polled
    /\ last_pattern # <<>>
    /\ snapshot.pattern = last_pattern
    /\ result_count >= 2
    /\ snapshot.item_count >= 2

\* C10: shutdown can be called in any state of the channel, any number of
\* times, also after the task has finished; it does not panic and leaves the
\* index, the cached counts, running and last_pattern as they were.
ShutdownLeavesIndex ==
    /\ [](~panicked => ENABLED Shutdown)
    /\ [][last_call'.op = "shutdown" =>
             /\ ~panicked'
             /\ UNCHANGED <<items, mpattern, worker, snapshot, result_count,
                            total_count, running, last_pattern>>]_vars

\* A second shutdown in a row, after the task finished, with matches cached.
ShutdownWitness ==
    /\ last_call.op = "shutdown"
    /\ last_call.a = 1
    /\ crawl_handle = "finished"
    /\ result_count > 0
    /\ running

\* C11: right after a shutdown call made while the crawl is in progress,
\* the task takes no further file from the walk and pushes no further
\* candidate.
ShutdownStopsCrawl ==
    [][(last_call.op = "shutdown" /\ crawl_handle = "running")
          => (walk' = walk /\ items' = items)]_vars

\* The candidates try_inject_lines pushes for a file it reads to its end:
\* the non-empty lines before the first line that does not decode.
RECURSIVE ReadableLines(_, _)
ReadableLines(lines, k) ==
    IF k > Len(lines) \/ ~DecodeOk(lines[k]) THEN {}
    ELSE (IF PreprocessLine(lines[k]) = <<>> THEN {} ELSE {k})
             \cup ReadableLines(lines, k + 1)

\* A worker-batch: the candidates one worker injects from one file.
BatchOf == [path \in Tree |-> Cardinality(ReadableLines(FileLines(path), 1))]
Batch(path) == BatchOf[path]

\* The sum of the n largest worker-batches of the tree.
RECURSIVE LargestBatches(_, _)
LargestBatches(n, files) ==
    IF n = 0 \/ files = {} THEN 0
    ELSE LET top == CHOOSE p \in files : \A q \in files : Batch(q) <= Batch(p)
         IN  Batch(top) + LargestBatches(n - 1, files \ {top})

OneBatch == LargestBatches(1, Tree)
BatchPerWalker == LargestBatches(NumWalkers, Tree)

\* C12: in a directory crawl the candidates injected never exceed
\* MAX_LINES_IN_MEM plus one worker-batch.
CrawlWithinBudgetPlusOneBatch ==
    loader = "crawl" => Len(items) <= MaxLinesInMem + OneBatch

\* C12, amended: in a directory crawl the candidates injected never exceed
\* MAX_LINES_IN_MEM plus one worker-batch for each parallel worker.
CrawlWithinBudgetPlusBatchPerWalker ==
    loader = "crawl"
        => Len(items) <= MaxLinesInMem + BatchPerWalker

\* Two workers passed the budget test together and the walk went past the budget
\* by more than one worker-batch; a third file was refused.
CrawlOvershootWitness ==
    /\ loader = "crawl"
    /\ Len(items) > MaxLinesInMem + OneBatch
    /\ QuitNow

\* C13: in a load from seed paths or from a directory crawl, no candidate
\* comes from a file whose size exceeds MAX_FILE_SIZE.
NoCandidateFromOversizedFile ==
    loader \in {"paths", "crawl"}
        => \A i \in 1 .. Len(items) : FileSize(items[i].path) <= MAX_FILE_SIZE

\* C14: a seeded-entry load never injects more than MAX_LINES_IN_MEM entries.
EntriesWithinBudget ==
    loader = "entries" => Len(items) <= MaxLinesInMem

\* C14, amended: a seeded-entry load never injects more than
\* MAX_LINES_IN_MEM + 1 entries; the entries after those are not pushed.
EntriesWithinBudgetPlusOne ==
    loader = "entries" =>
        /\ Len(items) <= MaxLinesInMem + 1
        /\ lines_in_mem = Len(items)
        /\ walkers[1].pc = "quit" => (Len(items) = MaxLinesInMem + 1 /\ walk # <<>>)

\* The load of a list longer than the budget has stopped with entries left.
EntriesCapWitness ==
    /\ loader = "entries"
    /\ crawl_handle = "finished"
    /\ Len(items) = MaxLinesInMem + 1
    /\ Len(walk) >= 2

PipeTakesAllResults ==
    [][piping' # piping => Len(piping'.entries) = MatchedItemCount(snapshot')]_vars

\* C17: determine_channel picks by a fixed precedence: readable stdin gives
\* the stdin prototype whatever the other arguments; otherwise a prompt gives
\* the channel guessed from it; otherwise the channel named on the command
\* line, or the configured default when none is named, and there a preview
\* command of the command line replaces the prototype's and leaves its name.
DetermineChannelPrecedence ==
    chosen.called =>
        LET args == chosen.args
            config == chosen.config
            got == chosen.prototype
        IN  /\ chosen.readable_stdin => got = StdinPrototype(args.preview_command)
            /\ (~chosen.readable_stdin /\ args.autocomplete_prompt # None) =>
                   got = GuessChannelFromPrompt(args.autocomplete_prompt,
                                                config.commands,
                                                config.fallback_channel)
            /\ (~chosen.readable_stdin /\ args.autocomplete_prompt = None) =>
                   /\ args.channel # None => got.name = args.channel
                   /\ args.channel = None => got.name = config.default_channel
                   /\ args.preview_command # None =>
                          got.preview_command = args.preview_command
                   /\ args.preview_command = None =>
                          got.preview_command = CablePreview(got.name)

\* No stdin, no prompt, no channel named, a preview command given: the
\* default channel with the preview of the command line.
DetermineChannelWitness ==
    /\ chosen.called
    /\ ~chosen.readable_stdin
    /\ chosen.args.autocomplete_prompt = None
    /\ chosen.args.channel = None
    /\ chosen.args.preview_command = "echo"
    /\ chosen.prototype = Prototype(chosen.config.default_channel, "echo")

\* C18: in a directory crawl, once the shared counter exceeds
\* MAX_LINES_IN_MEM, every callback invoked from then on quits the walk
\* without opening a file or injecting a candidate, and eventually all
\* workers have stopped; the candidates pushed stay in the index and are
\* counted by total_count after a later tick.
CrawlStopsOverBudget ==
    /\ [][(OverBudget(lines_in_mem) /\ walk' # walk) =>
              /\ items' = items
              /\ \E w \in Walkers : walkers[w].pc = "idle" /\ walkers'[w].pc = "quit"
              /\ \A w \in Walkers : walkers'[w].pc = "reading" => walkers[w] = walkers'[w]]_vars
    /\ [](OverBudget(lines_in_mem) => <>WalkersStopped)
    /\ [][Len(items') >= Len(items) /\ SubSeq(items', 1, Len(items)) = items]_vars
    /\ <>[](total_count = Len(items))

\* The counter went over the budget, a callback quit the walk, the crawl
\* ended and every candidate pushed is counted.
CrawlStopsWitness ==
    /\ loader = "crawl"
    /\ OverBudget(lines_in_mem)
    /\ QuitNow
    /\ crawl_handle = "finished"
    /\ total_count = Len(items)
    /\ Len(items) > MaxLinesInMem

\* The verdict of the peek over the bytes read alone.
ReadRejects(bytes) ==
    \/ BytesRead(bytes) = 0
    \/ IsNotText(SubSeq(bytes, 1, BytesRead(bytes)))
    \/ BelowThreshold(SubSeq(bytes, 1, BytesRead(bytes)))

\* The paths a step takes off the walk.
Taken == {p \in Tree : (\E i \in 1 .. Len(walk) : walk[i] = p)
                       /\ ~(\E i \in 1 .. Len(walk') : walk'[i] = p)}

\* C19: the text check of a file is computed over exactly the bytes the peek
\* read: a file within the budget and the size ceiling that the tests over
\* the bytes read do not reject is accepted and read line by line, whatever
\* the unread remainder of the 128-byte buffer holds.
PeekJudgesBytesRead ==
    [][\A p \in Taken :
           (/\ ~OverBudget(lines_in_mem)
            /\ FileSize(p) <= MAX_FILE_SIZE
            /\ ~ReadRejects(FileBytes(p)))
           => \E w \in Walkers : /\ walkers[w].pc = "idle"
                                 /\ walkers'[w].pc = "reading"
                                 /\ walkers'[w].path = p]_vars

\* The candidates of one file among the candidates pushed.
OfPath(its, path) == SelectSeq(its, LAMBDA c : c.path = path)

\* The lines of a file with non-empty normalized content, in file order.
RECURSIVE TextLines(_, _)
TextLines(lines, k) ==
    IF k > Len(lines) THEN <<>>
    ELSE (IF DecodeOk(lines[k]) /\ PreprocessLine(lines[k]) # <<>>
          THEN <<k>> ELSE <<>>) \o TextLines(lines, k + 1)

\* Those of them that come before the first line that does not decode.
RECURSIVE TextLinesRead(_, _)
TextLinesRead(lines, k) ==
    IF k > Len(lines) \/ ~DecodeOk(lines[k]) THEN <<>>
    ELSE (IF PreprocessLine(lines[k]) # <<>> THEN <<k>> ELSE <<>>)
             \o TextLinesRead(lines, k + 1)

\* The candidates of the lines ks of a file.
CandidatesAt(path, ks) ==
    [i \in 1 .. Len(ks) |->
        CandidateLine(path, PreprocessLine(FileLines(path)[ks[i]]), ks[i])]

TextLinesOf ==
    [path \in Tree |-> CandidatesAt(path, TextLines(FileLines(path), 1))]
TextLinesReadOf ==
    [path \in Tree |-> CandidatesAt(path, TextLinesRead(FileLines(path), 1))]

\* A worker is done with the file it read and adds its count to the counter:
\* the file's candidates are the expected ones and the count is theirs.
InjectedExactly(expected) ==
    \A w \in Walkers :
        (walkers[w].pc \in {"reading", "broken"} /\ walkers'[w].pc = "idle") =>
            \E got \in {OfPath(items', walkers[w].path)} :
                /\ got = expected[walkers[w].path]
                /\ \A i, j \in 1 .. Len(got) :
                       i < j => got[i].line_number < got[j].line_number
                /\ lines_in_mem' - lines_in_mem = Len(got)

\* C20: for a file that passes the checks, try_inject_lines pushes exactly
\* one candidate for each line whose normalized content is non-empty, in file
\* order, tagged with the line's 1-based position counted over all lines, so
\* the line numbers are strictly increasing; the count added to the budget
\* counter is the number of candidates pushed, skipped empty lines excluded.
InjectsEveryTextLine == [][InjectedExactly(TextLinesOf)]_vars

\* C20, amended: for a file that passes the checks, try_inject_lines pushes
\* exactly one candidate for each line with non-empty normalized content
\* that comes before the first line that fails to decode, in file order,
\* tagged with the line's 1-based position counted over all lines; the count
\* added to the budget counter is the number of candidates pushed.
InjectsTextLinesRead == [][InjectedExactly(TextLinesReadOf)]_vars

\* A file with an empty second line was read to its end: its candidates are
\* lines 1 and 3 and the counter went up by two.
InjectsWitness ==
    /\ loader = "crawl"
    /\ \A w \in Walkers : walkers[w].pc = "idle"
    /\ lines_in_mem = 2
    /\ Len(OfPath(items, "t")) = 2
    /\ OfPath(items, "t")[2].line_number = 3

\* C23: for every count and offset of the u32 range, results(count, offset)
\* ends its window at min(count + offset, matched count) in exact arithmetic:
\* when count + offset exceeds u32::MAX and the offset is within the matched
\* count, the call does not unwind and returns the entries from the offset
\* up to the matched count.
ResultsWindowExact ==
    (/\ last_call.op = "results"
     /\ last_call.a + last_call.b >= U32Mod
     /\ last_call.b <= MatchedItemCount(snapshot))
        => /\ ~panicked
           /\ returned = MatchedEntries(snapshot, items, last_call.b,
                                        MatchedItemCount(snapshot))

\* The entries piped all carry a value and a line number.
EntriesComplete ==
    \A i \in 1 .. Len(piping.entries) :
        piping.entries[i].value # <<>> /\ piping.entries[i].line_number # <<>>

\* C22: piping a Text channel into a new Text channel preserves candidates:
\* every entry of the source's results call has a value and a line number,
\* and each candidate injected into the new channel has the path, the line
\* text and the line number of the source candidate it comes from, in the
\* source's result order.
PipingPreservesCandidates ==
    (loader = "entries" /\ piping.source = "text") =>
        /\ EntriesComplete
        /\ Len(items) <= Len(piping.candidates)
        /\ \A i \in 1 .. Len(items) : items[i] = piping.candidates[i]

\* C22, amended: every entry of the source's results call has a value and a
\* line number, and each candidate injected into the new channel has, in the
\* source's result order, the line number of the source candidate it comes
\* from, the lossy Unicode rendering of its path and the text of its matcher
\* column: the source's own path when that is valid Unicode, the source's
\* own line when it has no combining mark.
PipingPreservesRendered ==
    (loader = "entries" /\ piping.source = "text") =>
        /\ EntriesComplete
        /\ Len(items) <= Len(piping.candidates)
        /\ \A i \in 1 .. Len(items) :
               LET from == piping.candidates[i]
               IN  /\ items[i].line_number = from.line_number
                   /\ items[i].path = ToStringLossy(from.path)
                   /\ items[i].line = ColumnText(from.line)
                   /\ from.path # NonUnicodePath => items[i].path = from.path
                   /\ (\A k \in 1 .. Len(from.line) : from.line[k] \notin Combining)
                          => items[i].line = from.line

\* Two candidates were piped and loaded in the source's result order, which
\* is not the order they were injected in; the second one's path is not
\* valid Unicode and came through changed.
PipingWitness ==
    /\ loader = "entries"
    /\ piping.source = "text"
    /\ crawl_handle = "finished"
    /\ Len(items) = 2
    /\ items[1] = piping.candidates[1]
    /\ piping.candidates[2].path = NonUnicodePath
    /\ items[2].path # NonUnicodePath
    /\ piping.entries[1].line_number = <<2>>

\* The files of the faulty tree a step takes off the walk or the seed list.
TakenFaulty ==
    {p \in FaultyTree : (\E i \in 1 .. Len(walk) : walk[i] = p)
                        /\ ~(\E i \in 1 .. Len(walk') : walk'[i] = p)}

====
